---- MODULE Spec2Model ----
(***************************************************************************)
(* Resilient fetch layer of the Mercado Livre search API:                  *)
(*   app.py        search (the /search handler), _normalize_items          *)
(*   ml_client.py  _request (retry loop), search_items, get_item_reviews,  *)
(*                 _fetch_reviews_with_semaphore, attach_reviews           *)
(* One step of the model is one uninterrupted run of a coroutine between   *)
(* two suspension points (an upstream answer, the end of a backoff sleep,  *)
(* the wake-up of the awaiting caller).                                    *)
(***************************************************************************)
EXTENDS Integers, Sequences, FiniteSets, TLC

VARIABLES
    query,       \* request parameter of /search
    limit,       \* request parameter of /search
    proxy_url,   \* MercadoLivreClient.proxy_url is set (TRUE) or empty (FALSE)
    pc,          \* position of the search handler: "search", "attach", "done"
    sreq,        \* the _request call of search_items: [st, attempt, failed, resp];
                 \* failed counts the retryable outcomes the upstream gave the call
    items,       \* the list search_items returned
    task,        \* task[i]: the _fetch_reviews_with_semaphore coroutine of items[i]
    semaphore,   \* MercadoLivreClient.semaphore._value (free permits)
    payload      \* the payload dict of the handler

vars == <<query, limit, proxy_url, pc, sreq, items, task, semaphore, payload>>

----------------------------------------------------------------------------
(* Program constants *)

MAX_RETRIES == 3
RETRY_STATUS_CODES == {429, 500, 502, 503, 504}
REVIEWS_CONCURRENCY == 8

(* Bounds of the model *)

MaxLimit == 2        \* limit ranges over 1..MaxLimit
ExtraItems == 1      \* the fan-out specification runs REVIEWS_CONCURRENCY + ExtraItems items

----------------------------------------------------------------------------
(* Values.  Python's None is the string "None" where the value is a string *)
(* and the empty tuple where it is a (scheme, rest) text or a warning.     *)

None == "None"
NoneV == <<>>

(* Mutant: every id counts as present. *)
TruthySAlways(s) == TRUE

TruthyS(s) == s # None /\ s # ""
TruthyV(v) == v # NoneV

OrV(a, b) == IF TruthyV(a) THEN a ELSE b

(* A text is kept split in <<scheme prefix, rest>> so that startswith() is computed. *)
StartsWithHttp(v) == v # NoneV /\ v[1] \in {"http://", "https://"}

----------------------------------------------------------------------------
(* The upstream: what one transport attempt can end in.                    *)
(* An outcome is [kind, status, body]; kind "http" carries a status and a  *)
(* body, the kinds "Timeout" and "NetworkError" are httpx exceptions.      *)
(* A body is [json, t, v]: json says what resp.json() meets ("invalid": no *)
(* JSON; "falsy": null, [], 0; "nonobject": a truthy JSON value that is no *)
(* object; "object"), t the state of the field read from the object        *)
(* ("absent", "null", "list", "other": a truthy value that is no list) and *)
(* v the list when t = "list".                                             *)

Body(json, t, v) == [json |-> json, t |-> t, v |-> v]
NoBody == Body("invalid", "absent", <<>>)

Http(status, body) == [kind |-> "http", status |-> status, body |-> body]
Failure(kind) == [kind |-> kind, status |-> 0, body |-> NoBody]

TransportFailures == {Failure("Timeout"), Failure("NetworkError")}

(* no attempt has ended yet *)
NoResp == Failure("none")

(* Catalog entries as the search endpoint returns them. *)
Raw(id, title, price, th, sth, thid) ==
    [id |-> id, title |-> title, price |-> price,
     thumbnail |-> th, secure_thumbnail |-> sth, thumbnail_id |-> thid]

Catalog ==
    << Raw("A", "tA", "10", <<"http://", "a.jpg">>, <<"https://", "a.jpg">>, <<"", "ida">>),
       Raw("B", None, None, NoneV, <<"https://", "b.jpg">>, NoneV),
       Raw(None, "tC", "30", NoneV, NoneV, <<"", "idc">>),
       Raw("D", "tD", "40", <<"http://", "d.jpg">>, NoneV, NoneV) >>

(* The result lists the upstream may answer with: any window of the catalog, *)
(* whatever the limit asked for.                                            *)
ResultLists ==
    {<<>>} \cup {SubSeq(Catalog, a, b) : a \in 1..2, b \in 1..Len(Catalog)}

ReviewLists == {<<>>, <<"r1">>, <<"r2", "r1">>}

SearchBodies ==
    {Body("invalid", "absent", <<>>), Body("falsy", "absent", <<>>),
     Body("nonobject", "absent", <<>>), Body("object", "absent", <<>>),
     Body("object", "other", <<>>)}
    \cup {Body("object", "list", r) : r \in ResultLists}

ReviewBodies ==
    {Body("invalid", "absent", <<>>), Body("falsy", "absent", <<>>),
     Body("nonobject", "absent", <<>>), Body("object", "absent", <<>>),
     Body("object", "null", <<>>), Body("object", "other", <<>>)}
    \cup {Body("object", "list", r) : r \in ReviewLists}

SearchStatuses == {201, 403, 404, 503}
ReviewStatuses == {201, 401, 403, 404, 429, 500, 503}

SearchOutcomes ==
    {Http(200, b) : b \in SearchBodies}
    \cup {Http(s, NoBody) : s \in SearchStatuses} \cup TransportFailures

ReviewOutcomes ==
    {Http(200, b) : b \in ReviewBodies}
    \cup {Http(s, NoBody) : s \in ReviewStatuses} \cup TransportFailures

----------------------------------------------------------------------------
(* _request: the retry loop.  Decide(attempt, o) is what the body of the   *)
(* loop does with the outcome o of attempt number `attempt` (0-based):     *)
(* "return" the response, "raise" the exception, or "sleep" and continue.  *)

Retryable(o) == o.kind # "http" \/ o.status \in RETRY_STATUS_CODES

(* what the outcome o adds to the count of retryable failures the upstream gave a call *)
Failed(o) == IF Retryable(o) THEN 1 ELSE 0

(* Mutant: no attempt is ever taken for the last one. *)
DecideNeverLast(attempt, o) ==
    IF o.kind = "http" /\ o.status \notin RETRY_STATUS_CODES THEN "return" ELSE "sleep"

(* Mutant: an exhausted retryable status is raised instead of returned. *)
DecideRaiseExhausted(attempt, o) ==
    IF o.kind = "http" /\ o.status \notin RETRY_STATUS_CODES
    THEN "return"
    ELSE IF attempt = MAX_RETRIES THEN "raise" ELSE "sleep"

(* Mutant: every response but 200 is retried. *)
DecideRetryAnyError(attempt, o) ==
    IF o.kind = "http" /\ o.status = 200
    THEN "return"
    ELSE IF attempt = MAX_RETRIES
         THEN IF o.kind = "http" THEN "return" ELSE "raise"
         ELSE "sleep"

Decide(attempt, o) ==
    IF o.kind = "http"
    THEN IF o.status \in RETRY_STATUS_CODES
         THEN IF attempt = MAX_RETRIES THEN "return" ELSE "sleep"
         ELSE "return"
    ELSE IF attempt = MAX_RETRIES THEN "raise" ELSE "sleep"

(* range(MAX_RETRIES + 1): the attempts of the loop are 0..LastAttempt. *)
LastAttempt == MAX_RETRIES

(* The fallback request after the loop (ml_client.py 109-111) returns or  *)
(* raises whatever the transport gives; it is taken when the loop ends.    *)
RequestStep(attempt, o) ==
    IF attempt > LastAttempt
    THEN IF o.kind = "http" THEN "return" ELSE "raise"
    ELSE Decide(attempt, o)

----------------------------------------------------------------------------
(* Warnings are texts; the model keeps the parts an f-string is built of:  *)
(* <<fixed text, status, item id, detail>>.  None is the empty tuple.      *)

Warning(text, status, id, detail) == <<text, status, id, detail>>

ProxyHintMessage ==
    "403 forbidden do Mercado Livre. bloqueio de IP/datacenter. configurar PROXY_URL"
GenericMessage == "Erro ao buscar itens: resp.text"

----------------------------------------------------------------------------
(* search_items, from the response _request returned (ml_client.py 124-161) *)

Min(a, b) == IF a <= b THEN a ELSE b

(* Mutant: the result list is not cut to the limit. *)
TakeAll(results, n) == results

(* results[:limit] *)
Take(results, n) == SubSeq(results, 1, Min(n, Len(results)))

Item(raw) ==
    [id |-> raw.id, title |-> raw.title, price |-> raw.price,
     image |-> OrV(raw.thumbnail, OrV(raw.secure_thumbnail, raw.thumbnail_id))]

MercadoLivreError(status, message) ==
    [kind |-> "MercadoLivreError", status |-> status, message |-> message, items |-> <<>>]

Raised(exc) == [kind |-> exc, status |-> 0, message |-> "", items |-> <<>>]

Returned(list) == [kind |-> "items", status |-> 0, message |-> "", items |-> list]

(* Mutant: the 403 hint is never given. *)
CatalogFailureNoHint(status, proxy) == MercadoLivreError(status, GenericMessage)

(* Mutant: the error carries 403 whatever the upstream status. *)
CatalogFailureFixedStatus(status, proxy) ==
    IF ~proxy
    THEN MercadoLivreError(403, ProxyHintMessage)
    ELSE MercadoLivreError(403, GenericMessage)

(* the two raise statements of search_items (ml_client.py 126-139) *)
CatalogFailure(status, proxy) ==
    IF status = 403 /\ ~proxy
    THEN MercadoLivreError(403, ProxyHintMessage)
    ELSE MercadoLivreError(status, GenericMessage)

search_items(resp, lim, proxy) ==
    IF resp.status # 200
    THEN CatalogFailure(resp.status, proxy)
    ELSE CASE resp.body.json = "invalid" -> Raised("JSONDecodeError")
           [] resp.body.json = "nonobject" -> Raised("AttributeError")
           [] resp.body.json = "falsy" -> Returned(<<>>)
           [] OTHER ->
                CASE resp.body.t = "other" -> Raised("TypeError")
                  [] resp.body.t = "list" ->
                        LET cut == Take(resp.body.v, lim)
                        IN  Returned([k \in 1..Len(cut) |-> Item(cut[k])])
                  [] OTHER -> Returned(<<>>)

----------------------------------------------------------------------------
(* get_item_reviews, from the way its _request call ended (ml_client.py 171-189): *)
(* how = "return" with the response o, or how = "raise" with the exception o.    *)

Value(reviews, warning) == [kind |-> "value", reviews |-> reviews, warning |-> warning]
Throws(exc) == [kind |-> exc, reviews |-> <<>>, warning |-> NoneV]

(* Mutant: the reviews of the body are dropped. *)
ParseReviewsDropped(body) == Value(<<>>, NoneV)

(* the body of a 200 response (ml_client.py 185-189) *)
ParseReviews(body) ==
    CASE body.json = "invalid" -> Throws("JSONDecodeError")
      [] body.json = "nonobject" -> Throws("AttributeError")
      [] body.json = "falsy" -> Value(<<>>, NoneV)
      [] OTHER -> IF body.t = "list" THEN Value(body.v, NoneV) ELSE Value(<<>>, NoneV)

get_item_reviews(item_id, how, o) ==
    IF how = "raise"
    THEN Value(<<>>, Warning("network_error ao buscar reviews", 0, item_id, o.kind))
    ELSE CASE o.status \in {401, 403} ->
                Value(<<>>, Warning("forbidden_or_unauthorized", o.status, item_id, ""))
           [] o.status = 404 -> Value(<<>>, NoneV)
           [] o.status = 429 -> Value(<<>>, Warning("rate_limited", 429, item_id, ""))
           [] o.status \notin {401, 403, 404, 429, 200} ->
                Value(<<>>, Warning("erro", o.status, item_id, ""))
           [] OTHER -> ParseReviews(o.body)

(* Mutant: the reviews fetched are not attached. *)
WithReviewsEmpty(item, reviews) ==
    [id |-> item.id, title |-> item.title, price |-> item.price,
     image |-> item.image, reviews |-> <<>>]

(* {**item, "reviews": reviews or []} *)
WithReviews(item, reviews) ==
    [id |-> item.id, title |-> item.title, price |-> item.price,
     image |-> item.image, reviews |-> reviews]

----------------------------------------------------------------------------
(* app.py: _normalize_items and the payload *)

NormalizeItem(it) ==
    [id |-> it.id,
     title |-> IF TruthyS(it.title) THEN it.title ELSE "",
     price |-> it.price,
     image |-> IF TruthyV(it.image) /\ StartsWithHttp(it.image) THEN it.image ELSE NoneV,
     permalink |-> None,
     reviews |-> it.reviews]

_normalize_items(list) == [k \in 1..Len(list) |-> NormalizeItem(list[k])]

BasePayload(q, lim) ==
    [query |-> q, limit |-> lim, count |-> 0, items |-> <<>>, warnings |-> <<>>]

----------------------------------------------------------------------------
(* attach_reviews: the tasks and what gather hands back *)

NewTask(item) ==
    [st |-> "wait", attempt |-> 0, failed |-> 0, item |-> item, resp |-> NoResp,
     res |-> <<>>, exc |-> ""]

(* tasks = [self._fetch_reviews_with_semaphore(item) for item in items] *)
Tasks(list) == [k \in 1..Len(list) |-> NewTask(list[k])]

(* Mutant: the results come back in the opposite order. *)
GatherReversed(t) == [k \in 1..Len(t) |-> t[Len(t) + 1 - k].res]

(* asyncio.gather: the results of the tasks, by position of the task *)
Gather(t) == [k \in 1..Len(t) |-> t[k].res]

(* Mutant: each warning is put in front of the earlier ones. *)
attach_reviews_prepend(results) ==
    [items |-> [k \in 1..Len(results) |-> results[k][1]],
     warnings |->
        LET ws == [k \in 1..Len(results) |-> results[Len(results) + 1 - k][2]]
        IN  SelectSeq(ws, TruthyV)]

(* the loop over results (ml_client.py 208-216) *)
attach_reviews(results) ==
    [items |-> [k \in 1..Len(results) |-> results[k][1]],
     warnings |->
        LET ws == [k \in 1..Len(results) |-> results[k][2]]
        IN  SelectSeq(ws, TruthyV)]

(* the handler of /search after attach_reviews returned (app.py 93-114) *)
SuccessPayload(q, lim, attached) ==
    LET normalized == _normalize_items(attached.items)
    IN  [query |-> q, limit |-> lim, count |-> Len(normalized),
         items |-> normalized, warnings |-> attached.warnings]

(* Mutant: the warning of the except branch is lost. *)
ErrorPayloadNoWarning(q, lim, w) == BasePayload(q, lim)

(* the handler of /search in one of its except branches (app.py 101-114) *)
ErrorPayload(q, lim, w) == [BasePayload(q, lim) EXCEPT !.warnings = <<w>>]

CatalogWarning(err) ==
    Warning("Erro ao buscar itens no Mercado Livre", err.status, "", err.message)
NetworkWarning(exc) == Warning("Erro de rede ao chamar Mercado Livre", 0, "", exc)
UnexpectedWarning(exc) == Warning("Erro inesperado no servidor", 0, "", exc)

----------------------------------------------------------------------------
(* Actions *)

(* The search call: one attempt of _request ends in outcome o.  When       *)
(* _request returns, search_items runs to its end and the handler either   *)
(* builds the tasks of attach_reviews or lands in an except branch.        *)
SearchRespond(o) ==
    /\ pc = "search"
    /\ sreq.st = "call"
    /\ LET d == RequestStep(sreq.attempt, o)
           r == search_items(o, limit, proxy_url)
       IN  CASE d = "sleep" ->
                  /\ sreq' = [sreq EXCEPT !.st = "sleep", !.failed = @ + Failed(o)]
                  /\ UNCHANGED <<pc, items, task, payload>>
             [] d = "raise" ->
                  /\ sreq' = [sreq EXCEPT !.st = "closed", !.resp = o, !.failed = @ + Failed(o)]
                  /\ pc' = "done"
                  /\ payload' = ErrorPayload(query, limit, NetworkWarning(o.kind))
                  /\ UNCHANGED <<items, task>>
             [] d = "return" /\ r.kind = "items" ->
                  /\ sreq' = [sreq EXCEPT !.st = "closed", !.resp = o, !.failed = @ + Failed(o)]
                  /\ pc' = "attach"
                  /\ items' = r.items
                  /\ task' = Tasks(r.items)
                  /\ UNCHANGED payload
             [] d = "return" /\ r.kind = "MercadoLivreError" ->
                  /\ sreq' = [sreq EXCEPT !.st = "closed", !.resp = o, !.failed = @ + Failed(o)]
                  /\ pc' = "done"
                  /\ payload' = ErrorPayload(query, limit, CatalogWarning(r))
                  /\ UNCHANGED <<items, task>>
             [] OTHER ->
                  /\ sreq' = [sreq EXCEPT !.st = "closed", !.resp = o, !.failed = @ + Failed(o)]
                  /\ pc' = "done"
                  /\ payload' = ErrorPayload(query, limit, UnexpectedWarning(r.kind))
                  /\ UNCHANGED <<items, task>>
    /\ UNCHANGED <<query, limit, proxy_url, semaphore>>

(* asyncio.sleep(_backoff_seconds(attempt)) of the search call is over *)
SearchWake ==
    /\ pc = "search"
    /\ sreq.st = "sleep"
    /\ sreq' = [sreq EXCEPT !.st = "call", !.attempt = sreq.attempt + 1]
    /\ UNCHANGED <<query, limit, proxy_url, pc, items, task, semaphore, payload>>

(* Mutant: the semaphore admits whatever its value. *)
CanAcquireAlways(value) == TRUE

(* Mutant: leaving the block gives no permit back. *)
ReleaseNothing(value) == value

(* asyncio.Semaphore as `async with self.semaphore` uses it *)
CanAcquire(value) == value > 0
Acquire(value) == value - 1
Release(value) == value + 1

(* Task i gets a permit of the semaphore (waiters are served in the order  *)
(* the tasks were created) and runs to its first suspension point: an item *)
(* without id returns at once and gives the permit back, any other sends   *)
(* the first attempt of its reviews call.                                  *)
Enter(i) ==
    /\ i \in 1..Len(task)
    /\ task[i].st = "wait"
    /\ \A j \in 1..(i - 1) : task[j].st # "wait"
    /\ CanAcquire(semaphore)
    /\ IF ~TruthyS(task[i].item.id)
       THEN /\ task' = [task EXCEPT ![i].st = "done",
                                    ![i].res = <<WithReviews(task[i].item, <<>>), NoneV>>]
            /\ semaphore' = Release(Acquire(semaphore))
       ELSE /\ task' = [task EXCEPT ![i].st = "call"]
            /\ semaphore' = Acquire(semaphore)
    /\ UNCHANGED <<query, limit, proxy_url, pc, sreq, items, payload>>

(* One attempt of the reviews call of task i ends in outcome o.  When      *)
(* _request returns or raises, get_item_reviews maps the outcome, the task *)
(* builds its result and leaves the semaphore.                             *)
ReviewRespond(i, o) ==
    /\ i \in 1..Len(task)
    /\ task[i].st = "call"
    /\ LET d == RequestStep(task[i].attempt, o)
           r == get_item_reviews(task[i].item.id, d, o)
       IN  CASE d = "sleep" ->
                  /\ task' = [task EXCEPT ![i].st = "sleep", ![i].failed = @ + Failed(o)]
                  /\ UNCHANGED semaphore
             [] d # "sleep" /\ r.kind = "value" ->
                  /\ task' = [task EXCEPT
                        ![i].st = "done", ![i].resp = o, ![i].failed = @ + Failed(o),
                        ![i].res = <<WithReviews(task[i].item, r.reviews), r.warning>>]
                  /\ semaphore' = Release(semaphore)
             [] OTHER ->
                  /\ task' = [task EXCEPT ![i].st = "raised", ![i].resp = o,
                                          ![i].failed = @ + Failed(o), ![i].exc = r.kind]
                  /\ semaphore' = Release(semaphore)
    /\ UNCHANGED <<query, limit, proxy_url, pc, sreq, items, payload>>

(* asyncio.sleep(_backoff_seconds(attempt)) of task i is over *)
ReviewWake(i) ==
    /\ i \in 1..Len(task)
    /\ task[i].st = "sleep"
    /\ task' = [task EXCEPT ![i].st = "call", ![i].attempt = task[i].attempt + 1]
    /\ UNCHANGED <<query, limit, proxy_url, pc, sreq, items, semaphore, payload>>

(* gather has every result: attach_reviews returns and the handler answers *)
GatherReturn ==
    /\ pc = "attach"
    /\ \A i \in 1..Len(task) : task[i].st = "done"
    /\ payload' = SuccessPayload(query, limit, attach_reviews(Gather(task)))
    /\ pc' = "done"
    /\ UNCHANGED <<query, limit, proxy_url, sreq, items, task, semaphore>>

(* gather(return_exceptions=False) passes the exception of a task on to    *)
(* attach_reviews, which has no handler, and so does search: the handler   *)
(* answers from its last except branch while the other tasks go on.        *)
GatherRaise ==
    /\ pc = "attach"
    /\ \E i \in 1..Len(task) :
          /\ task[i].st = "raised"
          /\ payload' = ErrorPayload(query, limit, UnexpectedWarning(task[i].exc))
    /\ pc' = "done"
    /\ UNCHANGED <<query, limit, proxy_url, sreq, items, task, semaphore>>

----------------------------------------------------------------------------
(* The whole request: /search from the call of the handler to its answer *)

Queries == {"notebook", "tv"}

Init ==
    /\ query \in Queries
    /\ limit \in 1..MaxLimit
    /\ proxy_url \in BOOLEAN
    /\ pc = "search"
    /\ sreq = [st |-> "call", attempt |-> 0, failed |-> 0, resp |-> NoResp]
    /\ items = <<>>
    /\ task = <<>>
    /\ semaphore = REVIEWS_CONCURRENCY
    /\ payload = BasePayload(query, limit)

Next ==
    \/ \E o \in SearchOutcomes : SearchRespond(o)
    \/ SearchWake
    \/ \E i \in 1..Len(task) : Enter(i)
    \/ \E i \in 1..Len(task), o \in ReviewOutcomes : ReviewRespond(i, o)
    \/ \E i \in 1..Len(task) : ReviewWake(i)
    \/ GatherReturn
    \/ GatherRaise

Spec == Init /\ [][Next]_vars

----------------------------------------------------------------------------
(* The fan-out alone: one attach_reviews invocation over more items than   *)
(* the semaphore has permits, against an upstream stub that answers by     *)
(* item id: one item's reviews call is flaky (any mix of 503, timeout and  *)
(* success), one is forbidden, one answers 200 with a body that is no      *)
(* JSON or has no review, every other item has one review.                                 *)

GateIds == <<"A", "B", "C", "D", "E", "F", "G", "H", "I", "J", "K", "L">>

NumGateItems == REVIEWS_CONCURRENCY + ExtraItems

FlakyIds == {"C"}
ForbiddenIds == {"A"}
BrokenIds == {"E"}

GateOutcomes(id) ==
    CASE id \in FlakyIds ->
            {Http(200, Body("object", "list", <<"r1">>)), Http(503, NoBody), Failure("Timeout")}
      [] id \in ForbiddenIds -> {Http(403, NoBody)}
      [] id \in BrokenIds ->
            {Http(200, Body("invalid", "absent", <<>>)), Http(200, Body("object", "list", <<>>))}
      [] OTHER -> {Http(200, Body("object", "list", <<"r1">>))}

GateItem(k, noId) ==
    [id |-> IF k = noId THEN None ELSE GateIds[k],
     title |-> GateIds[k], price |-> "1", image |-> NoneV]

(* noId: the position of the item without id (0: every item has one) *)
InitGate ==
    /\ query = "notebook"
    /\ limit = NumGateItems
    /\ proxy_url = FALSE
    /\ pc = "attach"
    /\ sreq = [st |-> "closed", attempt |-> 0, failed |-> 0, resp |-> NoResp]
    /\ \E noId \in {0, 2, NumGateItems} :
          items = [k \in 1..NumGateItems |-> GateItem(k, noId)]
    /\ task = Tasks(items)
    /\ semaphore = REVIEWS_CONCURRENCY
    /\ payload = BasePayload(query, limit)

NextGate ==
    \/ \E i \in 1..Len(task) : Enter(i)
    \/ \E i \in 1..Len(task) : \E o \in GateOutcomes(task[i].item.id) : ReviewRespond(i, o)
    \/ \E i \in 1..Len(task) : ReviewWake(i)
    \/ GatherReturn
    \/ GatherRaise

SpecGate == InitGate /\ [][NextGate]_vars

(* The event loop runs a coroutine that can go on, and every transport     *)
(* attempt and every backoff sleep ends: a step is taken while one can be. *)
SpecGateFair == SpecGate /\ WF_vars(NextGate)

----------------------------------------------------------------------------
(* Properties *)

Indices == 1..Len(task)

(* search_items returned a list (it raised nothing) *)
SearchSucceeded ==
    sreq.st = "closed" /\ search_items(sreq.resp, limit, proxy_url).kind = "items"

(* the search call ended in a response that makes search_items raise MercadoLivreError *)
CatalogFailed ==
    sreq.st = "closed" /\ sreq.resp.kind = "http" /\ sreq.resp.status # 200

(* the tasks between admission by the semaphore and completion *)
InFlight == {i \in Indices : task[i].st \in {"call", "sleep"}}

(* the transport attempts a _request call has made so far *)
Attempts(r) == IF r.st = "wait" THEN 0 ELSE r.attempt + 1

(* the task has come to its end *)
Settled(i) == task[i].st \in {"done", "raised"}

(* the reviews call of task i was made and get_item_reviews returned *)
Fetched(i) == task[i].st = "done" /\ task[i].resp # NoResp

(* C1: whenever search_items succeeds with n items, the payload has count = n and
   n items, whatever the review fetches end in *)
C1_EnrichmentNeverAborts ==
    (pc = "done" /\ SearchSucceeded) =>
        /\ payload.count = Len(items)
        /\ Len(payload.items) = Len(items)

(* C2: get_item_reviews never raises, whatever the final status, transport failure
   or response body *)
C2_GetItemReviewsNeverRaises == \A i \in Indices : task[i].st # "raised"

(* C3: the number of review calls in flight (admitted and not completed, backoff
   sleeps included) never exceeds 8 *)
C3_AtMostEightInFlight == Cardinality(InFlight) <= 8

(* C3 witness: 8 calls in flight, one of them in its backoff sleep, and a task waiting *)
C3_Witness ==
    /\ Cardinality(InFlight) = 8
    /\ \E i \in Indices : task[i].st = "sleep"
    /\ \E i \in Indices : task[i].st = "wait"

(* C4: the item sequence attach_reviews returns has the length of its input and
   holds at every index the input item of that index with reviews attached, whatever
   the order the tasks completed in *)
C4_OutputIndexAligned ==
    (\A i \in Indices : task[i].st = "done") =>
        LET out == attach_reviews(Gather(task)).items
        IN  /\ Len(out) = Len(items)
            /\ \A i \in 1..Len(items) :
                  /\ out[i].id = items[i].id
                  /\ out[i].title = items[i].title
                  /\ out[i].price = items[i].price
                  /\ out[i].image = items[i].image
                  /\ out[i].reviews \in Seq({"r1", "r2"})
                  /\ pc = "done" => payload.items[i].id = items[i].id

(* C4 witness: the handler answered with every item in place although the flaky
   item's task went through every backoff while its neighbours had completed *)
C4_Witness ==
    /\ pc = "done"
    /\ payload.count = NumGateItems
    /\ task[3].attempt = MAX_RETRIES
    /\ payload.items[3].id = "C"
    /\ payload.items[3].reviews = <<"r1">>
    /\ payload.items[4].id = "D"

(* C5: a failed catalog call gives the payload {query, limit, count 0, no items, one
   warning carrying the message of the error} *)
C5_CatalogErrorDegrades ==
    (pc = "done" /\ CatalogFailed) =>
        /\ payload.query = query
        /\ payload.limit = limit
        /\ payload.count = 0
        /\ payload.items = <<>>
        /\ Len(payload.warnings) = 1
        /\ payload.warnings[1][1] = "Erro ao buscar itens no Mercado Livre"
        /\ payload.warnings[1][2] = sreq.resp.status
        /\ payload.warnings[1][4] \in {ProxyHintMessage, GenericMessage}

(* C5 witness: the catalog call ended in 503 after every retry *)
C5_Witness ==
    /\ pc = "done"
    /\ sreq.resp = Http(503, NoBody)
    /\ sreq.attempt = MAX_RETRIES
    /\ payload.warnings = <<Warning("Erro ao buscar itens no Mercado Livre", 503, "", GenericMessage)>>

(* C6: count is the length of items in every payload, and after a successful catalog
   call the payload has at most limit items *)
C6_CountAndLimit ==
    /\ payload.count = Len(payload.items)
    /\ SearchSucceeded => (Len(items) <= limit /\ Len(payload.items) <= limit)

(* C6 witness: the upstream returned more results than the limit and the payload has
   limit items *)
C6_Witness ==
    /\ pc = "done"
    /\ SearchSucceeded
    /\ sreq.resp.body.t = "list"
    /\ Len(sreq.resp.body.v) > limit
    /\ payload.count = limit
    /\ Len(payload.items) = limit

(* C7, as claimed: one _request call makes at most 3 transport attempts *)
C7_AtMostThreeAttempts ==
    /\ Attempts(sreq) <= 3
    /\ \A i \in Indices : Attempts(task[i]) <= 3

(* C7, amended: one _request call makes at most MAX_RETRIES + 1 = 4 transport
   attempts, 1 initial attempt and at most 3 retries *)
C7_AtMostFourAttempts ==
    /\ Attempts(sreq) <= MAX_RETRIES + 1
    /\ \A i \in Indices : Attempts(task[i]) <= MAX_RETRIES + 1

(* C7 witness: the fourth attempt of a reviews call is in flight *)
C7_Witness == \E i \in Indices : task[i].st = "call" /\ Attempts(task[i]) = 4

(* C8: when every attempt of a _request call failed retryably, a retryable status of
   the last attempt is returned as a response (the caller maps its status) and a
   timeout or network error of the last attempt is raised *)
C8_LastAttemptDecides ==
    /\ (sreq.st = "closed" /\ sreq.attempt = MAX_RETRIES /\ Retryable(sreq.resp)) =>
          IF sreq.resp.kind = "http"
          THEN payload.warnings =
                  <<Warning("Erro ao buscar itens no Mercado Livre", sreq.resp.status, "",
                            GenericMessage)>>
          ELSE payload.warnings =
                  <<Warning("Erro de rede ao chamar Mercado Livre", 0, "", sreq.resp.kind)>>
    /\ \A i \in Indices :
          (Settled(i) /\ task[i].attempt = MAX_RETRIES /\ Retryable(task[i].resp)) =>
              /\ task[i].st = "done"
              /\ IF task[i].resp.kind = "http"
                 THEN /\ task[i].res[2][1] \in {"rate_limited", "erro"}
                      /\ task[i].res[2][2] = task[i].resp.status
                 ELSE /\ task[i].res[2][1] = "network_error ao buscar reviews"
                      /\ task[i].res[2][4] = task[i].resp.kind

(* C8 witness: one reviews call ended in a timeout and another in 503, each at its
   last attempt *)
C8_Witness ==
    \E i, j \in Indices :
        /\ task[i].st = "done" /\ task[i].attempt = MAX_RETRIES
        /\ task[i].resp = Failure("Timeout")
        /\ task[j].st = "done" /\ task[j].attempt = MAX_RETRIES
        /\ task[j].resp = Http(503, NoBody)

(* what get_item_reviews returned for task i *)
Reviews(i) == task[i].res[1].reviews
WarningOf(i) == task[i].res[2]

(* the cases of the mapping that do not depend on what counts as success *)
FailureMapping(i) ==
    LET o == task[i].resp
        id == task[i].item.id
    IN  CASE o.kind # "http" ->
                /\ Reviews(i) = <<>>
                /\ WarningOf(i) = Warning("network_error ao buscar reviews", 0, id, o.kind)
          [] o.status \in {401, 403} ->
                /\ Reviews(i) = <<>>
                /\ WarningOf(i) = Warning("forbidden_or_unauthorized", o.status, id, "")
          [] o.status = 404 -> Reviews(i) = <<>> /\ WarningOf(i) = NoneV
          [] o.status = 429 ->
                /\ Reviews(i) = <<>>
                /\ WarningOf(i) = Warning("rate_limited", 429, id, "")
          [] OTHER ->
                /\ Reviews(i) = <<>>
                /\ WarningOf(i) = Warning("erro", o.status, id, "")

(* the upstream reviews unchanged, or nothing when the field is no sequence *)
SuccessMapping(i) ==
    LET b == task[i].resp.body
    IN  /\ WarningOf(i) = NoneV
        /\ Reviews(i) = IF b.json = "object" /\ b.t = "list" THEN b.v ELSE <<>>

(* C9, as claimed: the mapping of the final outcome, with every 2xx status a success *)
C9_MappingEvery2xx ==
    \A i \in Indices :
        Fetched(i) =>
            IF task[i].resp.kind = "http" /\ task[i].resp.status \in 200..299
            THEN SuccessMapping(i)
            ELSE FailureMapping(i)

(* C9, amended: the mapping of the final outcome, with status 200 alone a success and
   every other status outside 401, 403, 404 and 429 (the other 2xx included) giving
   the warning erro (status) *)
C9_MappingOnly200 ==
    \A i \in Indices :
        Fetched(i) =>
            IF task[i].resp.kind = "http" /\ task[i].resp.status = 200
            THEN SuccessMapping(i)
            ELSE FailureMapping(i)

(* C9 witness: one reviews call ended in 201 and gave the warning erro (201), another
   ended in 200 and gave the upstream reviews *)
C9_Witness ==
    \E i, j \in Indices :
        /\ Fetched(i) /\ task[i].resp.status = 201
        /\ WarningOf(i) = Warning("erro", 201, task[i].item.id, "")
        /\ Fetched(j) /\ task[j].resp = Http(200, Body("object", "list", <<"r2", "r1">>))
        /\ Reviews(j) = <<"r2", "r1">>

(* C10, as claimed: a final status 403 of the search call gives the CatalogError 403
   with the message hinting at the proxy, proxy configured or not *)
C10_HintWhateverTheProxy ==
    (pc = "done" /\ CatalogFailed /\ sreq.resp.status = 403) =>
        payload.warnings =
            <<Warning("Erro ao buscar itens no Mercado Livre", 403, "", ProxyHintMessage)>>

(* C10, amended: a final status 403 of the search call gives a CatalogError 403, with
   the message hinting at the proxy when no proxy is configured and with the generic
   message when one is *)
C10_HintWithoutProxy ==
    (pc = "done" /\ CatalogFailed /\ sreq.resp.status = 403) =>
        payload.warnings =
            <<Warning("Erro ao buscar itens no Mercado Livre", 403, "",
                      IF proxy_url THEN GenericMessage ELSE ProxyHintMessage)>>

(* C10 witness: 403 with a proxy configured, answered with the generic message *)
C10_Witness ==
    /\ pc = "done"
    /\ proxy_url
    /\ sreq.resp.status = 403
    /\ payload.warnings =
          <<Warning("Erro ao buscar itens no Mercado Livre", 403, "", GenericMessage)>>

----------------------------------------------------------------------------
(* the handler answered with the warning of a MercadoLivreError carrying the status *)
(* of the response the search call ended in                                         *)
CatalogErrorReported ==
    /\ pc = "done"
    /\ Len(payload.warnings) = 1
    /\ payload.warnings[1][1] = "Erro ao buscar itens no Mercado Livre"
    /\ payload.warnings[1][2] = sreq.resp.status

(* the search call ended in a response *)
SearchAnswered == sreq.st = "closed" /\ sreq.resp.kind = "http"

(* the search call ended in a 200 response whose results are a list *)
ResultsParsed ==
    /\ SearchAnswered
    /\ sreq.resp.status = 200
    /\ sreq.resp.body.json = "object"
    /\ sreq.resp.body.t = "list"

(* C11, as claimed: search_items fails with a CatalogError carrying the upstream status
   exactly when the final status is outside 2xx *)
C11_FailsExactlyOutside2xx ==
    SearchAnswered => (CatalogErrorReported <=> sreq.resp.status \notin 200..299)

(* C11, amended: search_items fails with a CatalogError carrying the upstream status
   exactly when the final status is not 200 (the other 2xx included); for a 200 whose
   results are a list it returns the first limit results as items, each without a
   reviews field *)
C11_FailsExactlyOutside200 ==
    /\ SearchAnswered => (CatalogErrorReported <=> sreq.resp.status # 200)
    /\ ResultsParsed =>
          LET results == sreq.resp.body.v
          IN  /\ Len(items) = Min(limit, Len(results))
              /\ \A k \in 1..Len(items) :
                    /\ items[k].id = results[k].id
                    /\ items[k].title = results[k].title
                    /\ items[k].price = results[k].price
                    /\ "reviews" \notin DOMAIN items[k]

(* C11 witness: the search call ended in 201 and the handler reported the error 201 *)
C11_Witness ==
    /\ SearchAnswered
    /\ sreq.resp.status = 201
    /\ CatalogErrorReported
    /\ payload.warnings[1][2] = 201

(* the item of task i has no id *)
NoId(i) == ~(task[i].item.id # None /\ task[i].item.id # "")

(* C12: for an item without id no reviews request is issued, the item gets
   reviews = [] and no warning is generated for it *)
C12_NoIdNoRequest ==
    \A i \in Indices :
        NoId(i) =>
            /\ task[i].st \in {"wait", "done"}
            /\ Attempts(task[i]) <= 1 /\ task[i].failed = 0
            /\ task[i].resp = NoResp
            /\ task[i].st = "done" =>
                  /\ task[i].res[1].reviews = <<>>
                  /\ task[i].res[1].id = task[i].item.id
                  /\ task[i].res[2] = NoneV
            /\ (pc = "done" /\ payload.count = Len(task)) =>
                  /\ payload.items[i].reviews = <<>>
                  /\ \A k \in 1..Len(payload.warnings) :
                        payload.warnings[k][3] # task[i].item.id

(* C12 witness: the payload holds B, whose review call was forbidden, and the item
   without id, with no reviews and no warning of its own *)
C12_Witness ==
    /\ pc = "done"
    /\ payload.count = 2
    /\ NoId(2)
    /\ payload.items[2].id = None
    /\ payload.items[2].reviews = <<>>
    /\ payload.warnings = <<Warning("forbidden_or_unauthorized", 403, "B", "")>>

(* C13: when the upstream answers a reviews call with k retryable failures (k = 1 or
   2) and then with 200, the call has made exactly k retries (k + 1 attempts), the item
   gets the upstream reviews and no warning is reported for it *)
C13_SucceedsAfterRetries ==
    \A i \in Indices :
        (Fetched(i) /\ task[i].failed \in {1, 2} /\ task[i].resp.kind = "http"
            /\ task[i].resp.status = 200) =>
            /\ task[i].attempt = task[i].failed
            /\ Attempts(task[i]) = task[i].failed + 1
            /\ task[i].res[2] = NoneV
            /\ task[i].res[1].reviews =
                  IF task[i].resp.body.t = "list" THEN task[i].resp.body.v ELSE <<>>
            /\ (pc = "done" /\ payload.count = Len(task)) =>
                  /\ payload.items[i].reviews = task[i].res[1].reviews
                  /\ \A k \in 1..Len(payload.warnings) :
                        payload.warnings[k][3] # task[i].item.id

(* C13 witness: two retryable failures, then 200 with two reviews, and a payload
   without warnings *)
C13_Witness ==
    /\ pc = "done"
    /\ payload.warnings = <<>>
    /\ \E i \in Indices :
          /\ task[i].failed = 2
          /\ task[i].attempt = 2
          /\ task[i].resp = Http(200, Body("object", "list", <<"r2", "r1">>))
          /\ payload.items[i].reviews = <<"r2", "r1">>

(* the image the claim gives a catalog result: the secure thumbnail when present,
   otherwise the plain thumbnail, and nothing when neither is there *)
ClaimedImage(raw) ==
    IF raw.secure_thumbnail # NoneV THEN raw.secure_thumbnail
    ELSE IF raw.thumbnail # NoneV THEN raw.thumbnail
    ELSE NoneV

(* C14: the image of an item in the payload is the secure thumbnail of its catalog
   result when present, otherwise the plain thumbnail, and null when only a bare
   thumbnail identifier is there *)
C14_SecureThumbnailPreferred ==
    (pc = "done" /\ ResultsParsed /\ payload.count = Len(items)) =>
        \A k \in 1..Len(items) :
            payload.items[k].image = ClaimedImage(sreq.resp.body.v[k])

----------------------------------------------------------------------------
(* the position of the item with this id in the input of attach_reviews *)
PositionOf(id) == CHOOSE k \in 1..Len(items) : items[k].id = id

(* the tasks that produced a warning *)
Warned == {i \in Indices : task[i].st = "done" /\ task[i].res[2] # NoneV}

(* C15: the warnings attach_reviews returns are the warnings of the items that
   produced one, in increasing item index, whatever the order the tasks completed in *)
C15_WarningsInItemOrder ==
    (\A i \in Indices : task[i].st = "done") =>
        LET ws == attach_reviews(Gather(task)).warnings
        IN  /\ Len(ws) = Cardinality(Warned)
            /\ \A i \in Warned : \E k \in 1..Len(ws) : ws[k] = task[i].res[2]
            /\ \A k \in 1..Len(ws) : \E i \in Warned : ws[k] = task[i].res[2]
            /\ \A k, l \in 1..Len(ws) : k < l => PositionOf(ws[k][3]) < PositionOf(ws[l][3])
            /\ pc = "done" => payload.warnings = ws

(* C15 witness: the forbidden item's warning comes before the warning of the flaky
   item, which completed after every retry *)
C15_Witness ==
    /\ pc = "done"
    /\ payload.count = NumGateItems
    /\ task[3].attempt = MAX_RETRIES
    /\ payload.warnings =
          << Warning("forbidden_or_unauthorized", 403, "A", ""),
             Warning("network_error ao buscar reviews", 0, "C", "Timeout") >>

(* C16: an attempt of _request that yields an HTTP status outside the retryable ones
   (the count of retryable failures stays) ends the call in that very step, at the
   same attempt index, and a call that has ended makes no further attempt and sleeps
   no more *)
C16_TerminalStatusReturnedAtOnce ==
    [][ /\ (sreq.st = "call" /\ sreq' # sreq /\ sreq'.failed = sreq.failed) =>
              /\ sreq'.st = "closed"
              /\ sreq'.attempt = sreq.attempt
              /\ sreq'.resp.kind = "http"
        /\ sreq.st = "closed" => sreq' = sreq
        /\ \A i \in Indices :
              /\ (task[i].st = "call" /\ task'[i] # task[i]
                    /\ task'[i].failed = task[i].failed) =>
                    /\ task'[i].st \in {"done", "raised"}
                    /\ task'[i].attempt = task[i].attempt
                    /\ task'[i].resp.kind = "http"
              /\ task[i].st \in {"done", "raised"} => task'[i] = task[i]
      ]_vars

(* C16 witness: a 404 at the third attempt was returned at that attempt *)
C16_Witness ==
    \E i \in Indices :
        /\ task[i].st = "done"
        /\ task[i].resp = Http(404, NoBody)
        /\ task[i].attempt = 2
        /\ task[i].failed = 2

(* C17: free permits + tasks inside the semaphore = 8 in every state, and every permit
   is free once all tasks have settled, however they ended *)
C17_NoPermitLeak ==
    /\ semaphore + Cardinality(InFlight) = REVIEWS_CONCURRENCY
    /\ (\A i \in Indices : Settled(i)) => semaphore = REVIEWS_CONCURRENCY

(* C17 witness: every task has settled, one by raising and one with a warning, and
   the 8 permits are free *)
C17_Witness ==
    /\ \A i \in Indices : Settled(i)
    /\ \E i \in Indices : task[i].st = "raised"
    /\ \E i \in Indices : task[i].st = "done" /\ task[i].res[2] # NoneV
    /\ \E i \in Indices : task[i].st = "done" /\ task[i].attempt = MAX_RETRIES
    /\ semaphore = 8

(* C18: the caller of attach_reviews gets control only after every task has settled *)
C18_ReturnsAfterAllSettled ==
    pc = "done" => \A i \in Indices : Settled(i)

(* the tasks created before task i have all had their first run *)
FirstInLine(i) == \A j \in 1..(i - 1) : task[j].st # "wait"

(* C19, as claimed: the task of an item without id never waits for a slot of the
   semaphore *)
C19_NoIdNeverWaitsForSlot ==
    \A i \in Indices :
        (NoId(i) /\ task[i].st = "wait" /\ FirstInLine(i)) => semaphore > 0

(* C19, amended: the task of an item without id goes on only when a permit is free,
   and then it resolves in that very step to (item, reviews = [], no warning),
   without a request and with the permit given back *)
C19_NoIdResolvesOnAdmission ==
    [][ \A i \in Indices :
            (NoId(i) /\ task[i].st = "wait" /\ task'[i].st # "wait") =>
                /\ semaphore > 0
                /\ semaphore' = semaphore
                /\ task'[i].st = "done"
                /\ task'[i].resp = NoResp
                /\ task'[i].res[1].reviews = <<>>
                /\ task'[i].res[1].id = task[i].item.id
                /\ task'[i].res[2] = NoneV
      ]_vars

(* C19 witness: the last item has no id and has resolved after one of the 8 calls
   before it freed its slot *)
C19_Witness ==
    /\ NoId(NumGateItems)
    /\ task[NumGateItems].st = "done"
    /\ Cardinality(InFlight) = REVIEWS_CONCURRENCY - 1
    /\ semaphore = 1

(* C20: under fair scheduling attach_reviews comes to its end and every task is
   admitted and finishes *)
C20_EventuallyReturns ==
    <>[](pc = "done" /\ \A i \in Indices : Settled(i))

(* C20 witness: every task of the nine has finished, the last one after waiting for a
   slot, and attach_reviews has returned *)
C20_Witness ==
    /\ pc = "done"
    /\ Len(task) > REVIEWS_CONCURRENCY
    /\ \A i \in Indices : task[i].st = "done"
    /\ ~NoId(Len(task))
    /\ task[Len(task)].resp.status = 200
    /\ payload.count = Len(task)

====
